---- MODULE Spec2Model ----
(***************************************************************************)
(* Spot-welder controller firmware: the interlock gate, the pulse          *)
(* sequencer, the command parser and the debounced pedal of the two        *)
(* firmware variants (Blackpill_F411_HAL/src/main.c, the "HAL" variant,    *)
(* and WeldController_STM32/src/main.cpp, the "ARDUINO" variant).          *)
(*                                                                         *)
(* Time is the millisecond tick counter (uint32).  The control loop is one *)
(* thread whose position is pc; the receive interrupt, the tick and the    *)
(* pedal pin act between any two of its steps.  A line counts as sent at    *)
(* the tick of its uartSend call.                                          *)
(***************************************************************************)
EXTENDS Integers, Sequences, FiniteSets, TLC

\* ------------------------------------------------------------------------
\* Program constants
\* ------------------------------------------------------------------------
WELD_COOLDOWN_MS == 500
MAX_WELD_MS == 200
PEDAL_DEBOUNCE_MS == 40
BOOT_INHIBIT_MS == 5000
ARM_TIMEOUT_MS == 0
PWM_MAX == 1023
DEADTIME_MS == 2
RX_LINE_MAX == 128

\* ------------------------------------------------------------------------
\* Bounds of the model
\* ------------------------------------------------------------------------
\* Free passage of time stops at this tick (a fire in progress still ends).
MaxTick == 7000
\* Lines the ARDUINO variant's serial driver holds unread.
MaxQueue == 1
\* Level changes of the pedal input in one run.
MaxPedalChanges == 2
\* The same where the pedal is followed through a fire (SpecPedal).
MaxPedalEdges == 3
\* Characters the peer sends in one line before its terminator (SpecRx).
MaxLineLen == 130

\* ------------------------------------------------------------------------
\* Fixed-width integers
\* ------------------------------------------------------------------------
W8 == 2^8
W16 == 2^16

\* (uint8_t)x and (uint16_t)x of an int x
U8(x) == x % W8
U16(x) == x % W16

\* A uint32 is held as the int32 with the same bits: 0 .. 2^31-1 as they are,
\* 2^31 .. 2^32-1 as the negative numbers -2^31 .. -1.  Addition and
\* subtraction wrap; an unsigned comparison with a small bound k reads a
\* negative number as the large value it stands for.
MaxInt32 == (2^30 - 1) + 2^30
MinInt32 == (-MaxInt32) - 1

\* a + b for 0 <= b <= MaxInt32, wrapping
Add32(a, b) ==
    IF a > MaxInt32 - b THEN MinInt32 + ((b - (MaxInt32 - a)) - 1) ELSE a + b

\* a - b, wrapping
Sub32(a, b) ==
    IF b >= 0
    THEN IF a >= MinInt32 + b THEN a - b
         ELSE ((a - MinInt32) + (MaxInt32 - b)) + 1
    ELSE IF a <= MaxInt32 + b THEN a - b
         ELSE ((a - MaxInt32) + (MinInt32 - b)) - 1

\* unsigned x < k, for 0 <= k <= MaxInt32
ULt32(x, k) == x >= 0 /\ x < k
\* (int32_t)x
S32(x) == x

\* ------------------------------------------------------------------------
\* Lines on the wire.  tag is the text up to the numbers, n the number the
\* line carries (0 if none), r the further numbers it reports.
\* ------------------------------------------------------------------------
Line(tag, n, r) == [tag |-> tag, n |-> n, r |-> r]
L(tag) == Line(tag, 0, <<>>)

\* A received line as the parser reads it: the command it matches and the
\* decimal fields that parse (atoi / sscanf %d / toInt results).
Cmd(op, args) == [op |-> op, args |-> args]
Arg(args, i, dflt) == IF i <= Len(args) THEN args[i] ELSE dflt
NoLine == Cmd("", <<>>)

VARIABLES
    variant,               \* "HAL" or "ARDUINO": which firmware runs
    pc,                    \* position of the control loop
    ret,                   \* where fireRecipe returns to
    tick,                  \* HAL_GetTick() / millis()
    P,                     \* the weld parameters (the Parameter Store)
    welding_now, last_weld_ms, armed, armed_until_ms, boot_ms,
    pedal_pin,             \* the level on the pedal input
    pedal_changes,         \* how often that level has changed
    pedal_since,           \* the tick of its last change (boot_ms: none yet)
    pedal_last_raw, pedal_stable, pedal_last_change_ms,
    rx_line, rx_line_ready,\* HAL: the interrupt's line buffer and its flag
    serial1,               \* ARDUINO: complete lines not yet read
    duty,                  \* the timer compare register (output duty)
    t0, mainDuty, total_ms,\* locals of fireRecipe
    tx,                    \* the lines the last step sent
    wire_open,             \* a WELD_START was sent and no WELD_DONE since
    T_done,                \* <<tick at which the last fire ended>>, <<>>: none
    rx_in_weld,            \* the unread line completed while welding_now
    drive,                 \* per stage: time the running/last fire spent in it
    events,                \* the pulses and dwells of the running fire in order
    rx_idx,                \* HAL: the interrupt's write index into rx_line
    rx_sent,               \* characters of the line in transit sent so far
    rx_handled             \* the line marked ready was handed to parseCommand

paramVars == <<P>>
safetyVars == <<welding_now, last_weld_ms, armed, armed_until_ms, boot_ms>>
pedalVars == <<pedal_last_raw, pedal_stable, pedal_last_change_ms>>
isrVars == <<rx_idx, rx_sent>>
rxVars == <<rx_line, rx_line_ready, serial1, rx_in_weld, rx_handled, isrVars>>
fireVars == <<duty, t0, mainDuty, total_ms, drive, events>>
vars == <<variant, pc, ret, tick, P, welding_now, last_weld_ms, armed,
          armed_until_ms, boot_ms, pedal_pin, pedal_changes, pedal_since,
          pedal_last_raw, pedal_stable, pedal_last_change_ms, rx_line,
          rx_line_ready, serial1, duty, t0, mainDuty, total_ms, tx,
          wire_open, T_done, rx_in_weld, drive, events, rx_idx, rx_sent,
          rx_handled>>

\* ------------------------------------------------------------------------
\* Parameter Store
\* ------------------------------------------------------------------------
DefaultParams ==
    [weld_mode |-> 1, weld_d1_ms |-> 10, weld_gap1_ms |-> 0,
     weld_d2_ms |-> 0, weld_gap2_ms |-> 0, weld_d3_ms |-> 0,
     weld_power_pct |-> 100, preheat_enabled |-> FALSE, preheat_ms |-> 20,
     preheat_pct |-> 30, preheat_gap_ms |-> 3]

ClampLo(x, lo) == IF x < lo THEN lo ELSE x
ClampHi(x, hi) == IF x > hi THEN hi ELSE x

clampParams_NoD3(p) ==
    [p EXCEPT
        !.weld_mode = ClampHi(ClampLo(@, 1), 3),
        !.weld_d1_ms = ClampHi(@, MAX_WELD_MS),
        !.weld_d2_ms = ClampHi(@, MAX_WELD_MS),
        !.weld_power_pct = ClampHi(ClampLo(@, 50), 100),
        !.preheat_pct = ClampHi(@, 100),
        !.preheat_ms = ClampHi(@, MAX_WELD_MS)]

clampParams(p) ==
    [p EXCEPT
        !.weld_mode = ClampHi(ClampLo(@, 1), 3),
        !.weld_d1_ms = ClampHi(@, MAX_WELD_MS),
        !.weld_d2_ms = ClampHi(@, MAX_WELD_MS),
        !.weld_d3_ms = ClampHi(@, MAX_WELD_MS),
        !.weld_power_pct = ClampHi(ClampLo(@, 50), 100),
        !.preheat_pct = ClampHi(@, 100),
        !.preheat_ms = ClampHi(@, MAX_WELD_MS)]

\* (pctToDuty rounding to the nearest step)
pctToDuty_Round(pct) ==
    IF pct >= 100 THEN PWM_MAX ELSE (pct * PWM_MAX + 50) \div 100

pctToDuty(pct) ==
    IF pct >= 100 THEN PWM_MAX ELSE (pct * PWM_MAX) \div 100

\* the compare value pwmOnDuty(d) writes
pwmOnDuty(d) == IF d > PWM_MAX THEN PWM_MAX ELSE d

\* the time delayMsExact(ms) / doPulseMsPwm(ms, .) waits
delayMsExact(ms) == IF ms = 0 THEN 0 ELSE ClampHi(ms, MAX_WELD_MS)

\* The numbers EVENT,WELD_DONE reports after the elapsed time.
DoneReport(p) ==
    <<p.weld_mode, p.weld_d1_ms, p.weld_gap1_ms, p.weld_d2_ms,
      p.weld_gap2_ms, p.weld_d3_ms, p.weld_power_pct,
      IF p.preheat_enabled THEN 1 ELSE 0, p.preheat_ms, p.preheat_pct,
      p.preheat_gap_ms>>

\* ------------------------------------------------------------------------
\* Arm timeout
\* ------------------------------------------------------------------------
\* The armed flag, the deadline and whether EVENT,ARM_TIMEOUT is sent.
applyArmTimeout(a, until, now) ==
    IF ARM_TIMEOUT_MS = 0 \/ ~a \/ until = 0
    THEN [armed |-> a, armed_until_ms |-> until, ev |-> <<>>]
    ELSE IF S32(Sub32(now, until)) >= 0
         THEN [armed |-> FALSE, armed_until_ms |-> 0,
               ev |-> <<L("EVENT,ARM_TIMEOUT")>>]
         ELSE [armed |-> a, armed_until_ms |-> until, ev |-> <<>>]

\* ------------------------------------------------------------------------
\* Interlock gate: the checks of fireRecipe before the cycle starts.
\* The answer is the denial line, or EVENT,WELD_START.
\* ------------------------------------------------------------------------
fireGate_CooldownFirst(now, boot, a, welding, last) ==
    IF ULt32(Sub32(now, boot), BOOT_INHIBIT_MS)
    THEN Line("DENY,BOOT_INHIBIT", BOOT_INHIBIT_MS - Sub32(now, boot), <<>>)
    ELSE IF ULt32(Sub32(now, last), WELD_COOLDOWN_MS)
    THEN Line("DENY,COOLDOWN", WELD_COOLDOWN_MS - Sub32(now, last), <<>>)
    ELSE IF ~a THEN L("DENY,NOT_ARMED")
    ELSE IF welding THEN L("DENY,ALREADY_WELDING")
    ELSE L("EVENT,WELD_START")

fireGate_NoBootInhibit(now, boot, a, welding, last) ==
    IF ~a THEN L("DENY,NOT_ARMED")
    ELSE IF welding THEN L("DENY,ALREADY_WELDING")
    ELSE IF ULt32(Sub32(now, last), WELD_COOLDOWN_MS)
    THEN Line("DENY,COOLDOWN", WELD_COOLDOWN_MS - Sub32(now, last), <<>>)
    ELSE L("EVENT,WELD_START")

fireGate_NoCooldown(now, boot, a, welding, last) ==
    IF ULt32(Sub32(now, boot), BOOT_INHIBIT_MS)
    THEN Line("DENY,BOOT_INHIBIT", BOOT_INHIBIT_MS - Sub32(now, boot), <<>>)
    ELSE IF ~a THEN L("DENY,NOT_ARMED")
    ELSE IF welding THEN L("DENY,ALREADY_WELDING")
    ELSE L("EVENT,WELD_START")

fireGate(now, boot, a, welding, last) ==
    IF ULt32(Sub32(now, boot), BOOT_INHIBIT_MS)
    THEN Line("DENY,BOOT_INHIBIT", BOOT_INHIBIT_MS - Sub32(now, boot), <<>>)
    ELSE IF ~a THEN L("DENY,NOT_ARMED")
    ELSE IF welding THEN L("DENY,ALREADY_WELDING")
    ELSE IF ULt32(Sub32(now, last), WELD_COOLDOWN_MS)
    THEN Line("DENY,COOLDOWN", WELD_COOLDOWN_MS - Sub32(now, last), <<>>)
    ELSE L("EVENT,WELD_START")

\* ------------------------------------------------------------------------
\* What a step sends
\* ------------------------------------------------------------------------
Has(lines, tag) == \E i \in 1..Len(lines) : lines[i].tag = tag

Send(lines) ==
    /\ tx' = lines
    /\ wire_open' = IF Has(lines, "EVENT,WELD_START") THEN TRUE
                    ELSE IF Has(lines, "EVENT,WELD_DONE") THEN FALSE
                    ELSE wire_open

\* ------------------------------------------------------------------------
\* Command parser.  The result: the parameters, the arm state and the
\* response after the line, and whether the line calls fireRecipe.
\* ------------------------------------------------------------------------
Effect(p, a, until, out, fire) ==
    [P |-> p, armed |-> a, armed_until_ms |-> until, out |-> out,
     fire |-> fire]

\* (ARM,1 arming for 3000 ms)
cmdArm_Timed(c) ==
    IF Arg(c.args, 1, 0) = 1
    THEN Effect(P, TRUE, Add32(tick, 3000), <<L("ACK,ARM,1")>>, FALSE)
    ELSE Effect(P, FALSE, 0, <<L("ACK,ARM,0")>>, FALSE)

cmdArm(c) ==
    IF Arg(c.args, 1, 0) = 1
    THEN Effect(P, TRUE,
                IF ARM_TIMEOUT_MS = 0 THEN 0 ELSE Add32(tick, ARM_TIMEOUT_MS),
                <<L("ACK,ARM,1")>>, FALSE)
    ELSE Effect(P, FALSE, 0, <<L("ACK,ARM,0")>>, FALSE)

cmdSetPulseOne(c) ==
    LET val == Arg(c.args, 1, 0) IN
    IF val > 0 /\ val <= MAX_WELD_MS
    THEN Effect([P EXCEPT !.weld_d1_ms = val], armed, armed_until_ms,
                <<Line("ACK,PULSE=", val, <<>>)>>, FALSE)
    ELSE Effect(P, armed, armed_until_ms, <<L("ERR,PULSE_RANGE")>>, FALSE)

cmdSetPulse_NoTruncation(c) ==
    LET n == Len(c.args)
        q == clampParams(
               [P EXCEPT !.weld_mode = U8(Arg(c.args, 1, 1)),
                         !.weld_d1_ms = Arg(c.args, 2, 0),
                         !.weld_gap1_ms = U16(Arg(c.args, 3, 0)),
                         !.weld_d2_ms = Arg(c.args, 4, 0),
                         !.weld_gap2_ms = U16(Arg(c.args, 5, 0)),
                         !.weld_d3_ms = Arg(c.args, 6, 0)])
    IN
    IF n >= 2
    THEN Effect(q, armed, armed_until_ms,
                <<Line("ACK,SET_PULSE,mode=", q.weld_mode, <<>>)>>, FALSE)
    ELSE Effect(P, armed, armed_until_ms, <<L("DENY,BAD_SET_PULSE")>>, FALSE)

\* (SET_PULSE with omitted fields keeping their values)
cmdSetPulse_KeepOmitted(c) ==
    LET n == Len(c.args)
        q == clampParams(
               [P EXCEPT !.weld_mode = U8(Arg(c.args, 1, 1)),
                         !.weld_d1_ms = U16(Arg(c.args, 2, 0)),
                         !.weld_gap1_ms = IF n >= 3 THEN U16(c.args[3]) ELSE @,
                         !.weld_d2_ms = IF n >= 4 THEN U16(c.args[4]) ELSE @,
                         !.weld_gap2_ms = IF n >= 5 THEN U16(c.args[5]) ELSE @,
                         !.weld_d3_ms = IF n >= 6 THEN U16(c.args[6]) ELSE @])
    IN
    IF n >= 2
    THEN Effect(q, armed, armed_until_ms,
                <<Line("ACK,SET_PULSE,mode=", q.weld_mode, <<>>)>>, FALSE)
    ELSE Effect(P, armed, armed_until_ms, <<L("DENY,BAD_SET_PULSE")>>, FALSE)

cmdSetPulse(c) ==
    LET n == Len(c.args)
        q == clampParams(
               [P EXCEPT !.weld_mode = U8(Arg(c.args, 1, 1)),
                         !.weld_d1_ms = U16(Arg(c.args, 2, 0)),
                         !.weld_gap1_ms = U16(Arg(c.args, 3, 0)),
                         !.weld_d2_ms = U16(Arg(c.args, 4, 0)),
                         !.weld_gap2_ms = U16(Arg(c.args, 5, 0)),
                         !.weld_d3_ms = U16(Arg(c.args, 6, 0))])
    IN
    IF n >= 2
    THEN Effect(q, armed, armed_until_ms,
                <<Line("ACK,SET_PULSE,mode=", q.weld_mode, <<>>)>>, FALSE)
    ELSE Effect(P, armed, armed_until_ms, <<L("DENY,BAD_SET_PULSE")>>, FALSE)

cmdSetPowerRange(c) ==
    LET val == Arg(c.args, 1, 0) IN
    IF val >= 50 /\ val <= 100
    THEN Effect([P EXCEPT !.weld_power_pct = val], armed, armed_until_ms,
                <<Line("ACK,POWER=", val, <<>>)>>, FALSE)
    ELSE Effect(P, armed, armed_until_ms, <<L("ERR,POWER_RANGE")>>, FALSE)

cmdSetPower(c) ==
    LET q == clampParams([P EXCEPT !.weld_power_pct = U8(Arg(c.args, 1, 0))])
    IN Effect(q, armed, armed_until_ms,
              <<Line("ACK,SET_POWER,pct=", q.weld_power_pct, <<>>)>>, FALSE)

\* minFields: sscanf must convert 3 fields (HAL); three commas, that is four
\* fields, must be present (ARDUINO)
cmdSetPreheat(c, minFields) ==
    LET n == Len(c.args)
        q == clampParams(
               [P EXCEPT !.preheat_enabled = (Arg(c.args, 1, 0) = 1),
                         !.preheat_ms = U16(Arg(c.args, 2, 0)),
                         !.preheat_pct = U8(Arg(c.args, 3, 0)),
                         !.preheat_gap_ms =
                             IF n >= 4 THEN U16(c.args[4]) ELSE @])
    IN
    IF n >= minFields
    THEN Effect(q, armed, armed_until_ms,
                <<Line("ACK,SET_PREHEAT,en=",
                       IF q.preheat_enabled THEN 1 ELSE 0, <<>>)>>, FALSE)
    ELSE Effect(P, armed, armed_until_ms, <<L("DENY,BAD_SET_PREHEAT")>>,
                FALSE)

cmdStatus ==
    LET cd == WELD_COOLDOWN_MS - S32(Sub32(tick, last_weld_ms)) IN
    Effect(P, armed, armed_until_ms,
           <<Line("STATUS", ClampLo(cd, 0),
                  <<IF armed THEN 1 ELSE 0, IF welding_now THEN 1 ELSE 0,
                    P.weld_mode, P.weld_power_pct,
                    IF P.preheat_enabled THEN 1 ELSE 0>>)>>, FALSE)

parseCommand(c) ==
    CASE c.op = "ARM" -> cmdArm(c)
      [] c.op = "CMD,SET,PULSE" -> cmdSetPulseOne(c)
      [] c.op = "SET_PULSE" -> cmdSetPulse(c)
      [] c.op = "CMD,SET,POWER" -> cmdSetPowerRange(c)
      [] c.op = "SET_POWER" -> cmdSetPower(c)
      [] c.op = "SET_PREHEAT" -> cmdSetPreheat(c, 3)
      [] c.op = "CMD,FIRE" -> Effect(P, armed, armed_until_ms, <<>>, TRUE)
      [] c.op = "CMD,ENABLE" ->
            Effect(P, TRUE, armed_until_ms, <<L("ACK,ENABLED")>>, FALSE)
      [] c.op = "CMD,DISABLE" ->
            Effect(P, FALSE, armed_until_ms, <<L("ACK,DISABLED")>>, FALSE)
      [] c.op \in {"STATUS", "CMD,STATUS"} -> cmdStatus
      [] OTHER ->
            Effect(P, armed, armed_until_ms, <<L("ERR,UNKNOWN_CMD")>>, FALSE)

handleCmd(c) ==
    CASE c.op = "ARM" -> cmdArm(c)
      [] c.op = "SET_PULSE" -> cmdSetPulse(c)
      [] c.op = "SET_POWER" -> cmdSetPower(c)
      [] c.op = "SET_PREHEAT" -> cmdSetPreheat(c, 4)
      [] c.op = "STATUS" -> cmdStatus
      [] OTHER -> Effect(P, armed, armed_until_ms, <<>>, FALSE)

\* ------------------------------------------------------------------------
\* Debounced pedal: one sample.  SET is the released level (pull-up), RESET
\* the pressed one.
\* ------------------------------------------------------------------------
\* (pollPedal without the test of the debounce window)
pollPedal_NoWindow(raw, now) ==
    LET lc == IF raw # pedal_last_raw THEN now ELSE pedal_last_change_ms
        commit == raw # pedal_stable
    IN [last_raw |-> raw, last_change |-> lc,
        stable |-> IF commit THEN raw ELSE pedal_stable,
        press |-> commit /\ pedal_stable = "SET" /\ raw = "RESET"]

pollPedal(raw, now) ==
    LET lc == IF raw # pedal_last_raw THEN now ELSE pedal_last_change_ms
        commit == /\ ~ULt32(Sub32(now, lc), PEDAL_DEBOUNCE_MS)
                  /\ raw # pedal_stable
    IN [last_raw |-> raw, last_change |-> lc,
        stable |-> IF commit THEN raw ELSE pedal_stable,
        press |-> commit /\ pedal_stable = "SET" /\ raw = "RESET"]

\* ------------------------------------------------------------------------
\* Initial state: the state main() / setup() leaves before the first loop
\* iteration.
\* ------------------------------------------------------------------------
NoDrive ==
    [preheat |-> 0, preheat_gap |-> 0, d1 |-> 0, gap1 |-> 0, d2 |-> 0,
     gap2 |-> 0, d3 |-> 0]

\* The tick at which boot_ms is taken: after ten HAL_Delay(100) in the HAL
\* variant, at the start of setup() in the ARDUINO variant.
BootTicks(v) == IF v = "HAL" THEN {1010} ELSE {0}

LoopStart(v) == IF v = "HAL" THEN "poll" ELSE "uart"

Init ==
    /\ variant \in {"HAL", "ARDUINO"}
    /\ pc = LoopStart(variant)
    /\ ret = "arm"
    /\ tick \in BootTicks(variant)
    /\ boot_ms = tick
    /\ P = DefaultParams
    /\ welding_now = FALSE
    /\ last_weld_ms = 0
    /\ armed = (variant = "ARDUINO")
    /\ armed_until_ms = 0
    /\ pedal_pin \in {"SET", "RESET"}
    /\ pedal_changes = 0
    /\ pedal_since = boot_ms
    /\ pedal_last_raw = pedal_pin
    /\ pedal_stable = pedal_pin
    /\ pedal_last_change_ms = boot_ms
    /\ rx_line = NoLine
    /\ rx_line_ready = FALSE
    /\ serial1 = <<>>
    /\ duty = 0
    /\ t0 = 0
    /\ mainDuty = 0
    /\ total_ms = 0
    /\ tx = <<L("BOOT,STM32_WELD_BRAIN_PWM_READY")>>
    /\ wire_open = FALSE
    /\ T_done = <<>>
    /\ rx_in_weld = FALSE
    /\ drive = NoDrive
    /\ events = <<>>
    /\ rx_idx = 0
    /\ rx_sent = 0
    /\ rx_handled = FALSE

\* ------------------------------------------------------------------------
\* The control loop
\* ------------------------------------------------------------------------
PollPedal ==
    /\ pc = "poll"
    /\ LET s == pollPedal(pedal_pin, tick) IN
        /\ pedal_last_raw' = s.last_raw
        /\ pedal_last_change_ms' = s.last_change
        /\ pedal_stable' = s.stable
        /\ IF s.press
           THEN /\ Send(IF variant = "HAL" THEN <<L("EVENT,PEDAL_PRESS")>>
                        ELSE <<>>)
                /\ pc' = "gate"
                /\ ret' = "arm"
           ELSE /\ Send(<<>>)
                /\ pc' = "arm"
                /\ ret' = ret
    /\ UNCHANGED <<variant, tick, P, safetyVars, pedal_pin, pedal_changes,
                   pedal_since, rxVars, fireVars, T_done>>

ArmTimeoutStep ==
    /\ pc = "arm"
    /\ LET s == applyArmTimeout(armed, armed_until_ms, tick) IN
        /\ armed' = s.armed
        /\ armed_until_ms' = s.armed_until_ms
        /\ Send(s.ev)
    /\ pc' = IF variant = "HAL" THEN "rx" ELSE "uart"
    /\ UNCHANGED <<variant, ret, tick, P, welding_now, last_weld_ms, boot_ms,
                   pedal_pin, pedal_changes, pedal_since, pedalVars, rxVars,
                   fireVars, T_done>>

Apply(e, nextPc, retPc) ==
    /\ P' = e.P
    /\ armed' = e.armed
    /\ armed_until_ms' = e.armed_until_ms
    /\ Send(e.out)
    /\ IF e.fire
       THEN pc' = "gate" /\ ret' = retPc
       ELSE pc' = nextPc /\ ret' = ret

\* HAL: if (rx_line_ready) parseCommand(rx_line);
RxParse ==
    /\ pc = "rx"
    /\ rx_line_ready
    /\ Apply(parseCommand(rx_line), "rxclr", "rxclr")
    /\ rx_handled' = TRUE
    /\ UNCHANGED <<variant, tick, welding_now, last_weld_ms, boot_ms,
                   pedal_pin, pedal_changes, pedal_since, pedalVars, rx_line,
                   rx_line_ready, serial1, rx_in_weld, isrVars, fireVars,
                   T_done>>

RxIdle ==
    /\ pc = "rx"
    /\ ~rx_line_ready
    /\ pc' = "poll"
    /\ Send(<<>>)
    /\ UNCHANGED <<variant, ret, tick, P, safetyVars, pedal_pin,
                   pedal_changes, pedal_since, pedalVars, rxVars, fireVars,
                   T_done>>

\* HAL: rx_line_ready = false;  With the flag down nothing reads the buffer
\* before the interrupt has written the next line into it: its content is
\* dead and is left out of the state.
RxClear ==
    /\ pc = "rxclr"
    /\ rx_line_ready' = FALSE
    /\ rx_line' = NoLine
    /\ rx_in_weld' = FALSE
    /\ rx_handled' = FALSE
    /\ pc' = "poll"
    /\ Send(<<>>)
    /\ UNCHANGED <<variant, ret, tick, P, safetyVars, pedal_pin,
                   pedal_changes, pedal_since, pedalVars, serial1, isrVars,
                   fireVars, T_done>>

\* ARDUINO: pollUart, one complete line
UartLine ==
    /\ pc = "uart"
    /\ serial1 # <<>>
    /\ serial1' = Tail(serial1)
    /\ Apply(handleCmd(Head(serial1)), "uart", "uart")
    /\ UNCHANGED <<variant, tick, welding_now, last_weld_ms, boot_ms,
                   pedal_pin, pedal_changes, pedal_since, pedalVars, rx_line,
                   rx_line_ready, rx_in_weld, rx_handled, isrVars, fireVars,
                   T_done>>

UartIdle ==
    /\ pc = "uart"
    /\ serial1 = <<>>
    /\ pc' = "poll"
    /\ Send(<<>>)
    /\ UNCHANGED <<variant, ret, tick, P, safetyVars, pedal_pin,
                   pedal_changes, pedal_since, pedalVars, rxVars, fireVars,
                   T_done>>

\* ------------------------------------------------------------------------
\* fireRecipe: the gate, then the pulse sequence.  The waits are busy-waits
\* of the control loop: the tick advances by the time waited.
\* ------------------------------------------------------------------------
\* (fireRecipe without the line welding_now = true)
FireEntry_NoFlag ==
    /\ pc = "gate"
    /\ LET now == tick
           inhibited == ULt32(Sub32(now, boot_ms), BOOT_INHIBIT_MS)
           at == IF inhibited
                 THEN [armed |-> armed, armed_until_ms |-> armed_until_ms,
                       ev |-> <<>>]
                 ELSE applyArmTimeout(armed, armed_until_ms, now)
           line == fireGate(now, boot_ms, at.armed, welding_now, last_weld_ms)
       IN
        /\ armed' = at.armed
        /\ armed_until_ms' = at.armed_until_ms
        /\ Send(at.ev \o <<line>>)
        /\ IF line.tag = "EVENT,WELD_START"
           THEN /\ P' = clampParams(P)
                /\ welding_now' = welding_now
                /\ drive' = NoDrive
                /\ events' = <<>>
                /\ pc' = "off0"
           ELSE /\ UNCHANGED <<P, welding_now, drive, events>>
                /\ pc' = ret
    /\ UNCHANGED <<variant, ret, tick, last_weld_ms, boot_ms, pedal_pin,
                   pedal_changes, pedal_since, pedalVars, rxVars, duty, t0,
                   mainDuty, total_ms, T_done>>

\* (fireRecipe disarming the unit when it denies)
FireEntry_DenyDisarms ==
    /\ pc = "gate"
    /\ LET now == tick
           inhibited == ULt32(Sub32(now, boot_ms), BOOT_INHIBIT_MS)
           at == IF inhibited
                 THEN [armed |-> armed, armed_until_ms |-> armed_until_ms,
                       ev |-> <<>>]
                 ELSE applyArmTimeout(armed, armed_until_ms, now)
           line == fireGate(now, boot_ms, at.armed, welding_now, last_weld_ms)
       IN
        /\ armed' = (at.armed /\ line.tag = "EVENT,WELD_START")
        /\ armed_until_ms' = at.armed_until_ms
        /\ Send(at.ev \o <<line>>)
        /\ IF line.tag = "EVENT,WELD_START"
           THEN /\ P' = clampParams(P)
                /\ welding_now' = TRUE
                /\ drive' = NoDrive
                /\ events' = <<>>
                /\ pc' = "off0"
           ELSE /\ UNCHANGED <<P, welding_now, drive, events>>
                /\ pc' = ret
    /\ UNCHANGED <<variant, ret, tick, last_weld_ms, boot_ms, pedal_pin,
                   pedal_changes, pedal_since, pedalVars, rxVars, duty, t0,
                   mainDuty, total_ms, T_done>>

FireEntry ==
    /\ pc = "gate"
    /\ LET now == tick
           inhibited == ULt32(Sub32(now, boot_ms), BOOT_INHIBIT_MS)
           at == IF inhibited
                 THEN [armed |-> armed, armed_until_ms |-> armed_until_ms,
                       ev |-> <<>>]
                 ELSE applyArmTimeout(armed, armed_until_ms, now)
           line == fireGate(now, boot_ms, at.armed, welding_now, last_weld_ms)
       IN
        /\ armed' = at.armed
        /\ armed_until_ms' = at.armed_until_ms
        /\ Send(at.ev \o <<line>>)
        /\ IF line.tag = "EVENT,WELD_START"
           THEN /\ P' = clampParams(P)
                /\ welding_now' = TRUE
                /\ drive' = NoDrive
                /\ events' = <<>>
                /\ pc' = "off0"
           ELSE /\ UNCHANGED <<P, welding_now, drive, events>>
                /\ pc' = ret
    /\ UNCHANGED <<variant, ret, tick, last_weld_ms, boot_ms, pedal_pin,
                   pedal_changes, pedal_since, pedalVars, rxVars, duty, t0,
                   mainDuty, total_ms, T_done>>

\* what every step of the sequence leaves alone
FireFrame ==
    /\ Send(<<>>)
    /\ UNCHANGED <<variant, ret, P, armed, armed_until_ms, boot_ms, pedal_pin,
                   pedal_changes, pedal_since, pedalVars, rxVars, T_done>>

\* pwmOff();
FireOff ==
    /\ pc = "off0"
    /\ duty' = 0
    /\ pc' = "deadtime"
    /\ FireFrame
    /\ UNCHANGED <<tick, welding_now, last_weld_ms, t0, mainDuty, total_ms,
                   drive, events>>

\* HAL_Delay(2) / delayMicroseconds(2000); t0 = now
FireDeadtime ==
    /\ pc = "deadtime"
    /\ tick' = Add32(tick, DEADTIME_MS)
    /\ t0' = tick'
    /\ pc' = "preheat"
    /\ FireFrame
    /\ UNCHANGED <<welding_now, last_weld_ms, duty, mainDuty, total_ms, drive,
                   events>>

\* The stages of the sequence in program order, and for each its code
\* position, the condition under which it runs, the time the recipe gives it
\* and the position after it.
Pulses == {"preheat", "d1", "d2", "d3"}
Gaps == {"preheat_gap", "gap1", "gap2"}

\* (the stage conditions without the test of weld_mode)
StageCond_AnyMode(st) ==
    CASE st = "preheat" -> P.preheat_enabled /\ P.preheat_ms > 0
      [] st = "preheat_gap" -> P.preheat_enabled /\ P.preheat_ms > 0
      [] st \in {"d1", "gap1", "d2", "gap2", "d3"} -> TRUE

StageCond(st) ==
    CASE st = "preheat" -> P.preheat_enabled /\ P.preheat_ms > 0
      [] st = "preheat_gap" -> P.preheat_enabled /\ P.preheat_ms > 0
      [] st = "d1" -> P.weld_mode >= 1
      [] st \in {"gap1", "d2"} -> P.weld_mode >= 2
      [] st \in {"gap2", "d3"} -> P.weld_mode >= 3

StageMs(st) ==
    CASE st = "preheat" -> P.preheat_ms
      [] st = "preheat_gap" -> P.preheat_gap_ms
      [] st = "d1" -> P.weld_d1_ms
      [] st = "gap1" -> P.weld_gap1_ms
      [] st = "d2" -> P.weld_d2_ms
      [] st = "gap2" -> P.weld_gap2_ms
      [] st = "d3" -> P.weld_d3_ms

StageNext(st) ==
    CASE st = "preheat" -> "preheat_gap"
      [] st = "preheat_gap" -> "d1"
      [] st = "d1" -> "gap1"
      [] st = "gap1" -> "d2"
      [] st = "d2" -> "gap2"
      [] st = "gap2" -> "d3"
      [] st = "d3" -> "fin"

\* the position inside doPulseMsPwm while stage st drives the output
OnPc(st) ==
    CASE st = "preheat" -> "preheat_on"
      [] st = "d1" -> "d1_on"
      [] st = "d2" -> "d2_on"
      [] st = "d3" -> "d3_on"

\* doPulseMsPwm(ms, duty) up to its wait: the output goes on unless the
\* stage does not run or ms is 0.  mainDuty is computed before stage 1.
PulseOn(st) ==
    /\ pc = st
    /\ mainDuty' = IF st = "d1" THEN pctToDuty(P.weld_power_pct) ELSE mainDuty
    /\ IF StageCond(st) /\ StageMs(st) # 0
       THEN /\ duty' = pwmOnDuty(IF st = "preheat"
                                 THEN pctToDuty(P.preheat_pct) ELSE mainDuty')
            /\ pc' = OnPc(st)
       ELSE /\ duty' = duty
            /\ pc' = StageNext(st)
    /\ FireFrame
    /\ UNCHANGED <<tick, welding_now, last_weld_ms, t0, total_ms, drive,
                   events>>

\* the wait of doPulseMsPwm, then pwmOff()
PulseOff(st) ==
    /\ pc = OnPc(st)
    /\ tick' = Add32(tick, delayMsExact(StageMs(st)))
    /\ duty' = 0
    /\ drive' = [drive EXCEPT ![st] = Sub32(tick', tick)]
    /\ events' = Append(events, [st |-> st, duty |-> duty,
                                 ms |-> Sub32(tick', tick)])
    /\ pc' = StageNext(st)
    /\ FireFrame
    /\ UNCHANGED <<welding_now, last_weld_ms, t0, mainDuty, total_ms>>

\* if (ms) { [pwmOff();] delayMsExact(ms); } for a gap of a stage that runs
GapWait(st) ==
    /\ pc = st
    /\ IF StageCond(st) /\ StageMs(st) # 0
       THEN /\ tick' = Add32(tick, delayMsExact(StageMs(st)))
            /\ duty' = IF st = "preheat_gap" THEN 0 ELSE duty
            /\ drive' = [drive EXCEPT ![st] = Sub32(tick', tick)]
            /\ events' = Append(events, [st |-> st, duty |-> duty',
                                         ms |-> Sub32(tick', tick)])
       ELSE UNCHANGED <<tick, duty, drive, events>>
    /\ pc' = StageNext(st)
    /\ FireFrame
    /\ UNCHANGED <<welding_now, last_weld_ms, t0, mainDuty, total_ms>>

\* total = now - t0; pwmOff();
FireTotal ==
    /\ pc = "fin"
    /\ total_ms' = Sub32(tick, t0)
    /\ duty' = 0
    /\ pc' = "fin_flag"
    /\ FireFrame
    /\ UNCHANGED <<tick, welding_now, last_weld_ms, t0, mainDuty, drive,
                   events>>

\* welding_now = false; last_weld_ms = now;
FireRelease ==
    /\ pc = "fin_flag"
    /\ welding_now' = FALSE
    /\ last_weld_ms' = tick
    /\ pc' = "fin_report"
    /\ Send(<<>>)
    /\ T_done' = <<tick>>
    /\ UNCHANGED <<variant, ret, tick, P, armed, armed_until_ms, boot_ms,
                   pedal_pin, pedal_changes, pedal_since, pedalVars, rxVars,
                   fireVars>>

\* (fireRecipe without its last uartSend)
FireReport_Silent ==
    /\ pc = "fin_report"
    /\ Send(<<>>)
    /\ pc' = ret
    /\ t0' = 0
    /\ mainDuty' = 0
    /\ total_ms' = 0
    /\ drive' = NoDrive
    /\ events' = <<>>
    /\ UNCHANGED <<variant, ret, tick, P, safetyVars, pedal_pin,
                   pedal_changes, pedal_since, pedalVars, rxVars, duty,
                   T_done>>

\* uartSend(EVENT,WELD_DONE,...); return: the locals are gone
FireReport ==
    /\ pc = "fin_report"
    /\ Send(<<Line("EVENT,WELD_DONE",
                   IF variant = "HAL" THEN total_ms ELSE total_ms * 1000,
                   DoneReport(P))>>)
    /\ pc' = ret
    /\ t0' = 0
    /\ mainDuty' = 0
    /\ total_ms' = 0
    /\ drive' = NoDrive
    /\ events' = <<>>
    /\ UNCHANGED <<variant, ret, tick, P, safetyVars, pedal_pin,
                   pedal_changes, pedal_since, pedalVars, rxVars, duty,
                   T_done>>

Sequencer ==
    \/ FireOff
    \/ FireDeadtime
    \/ \E st \in Pulses : PulseOn(st)
    \/ \E st \in Pulses : PulseOff(st)
    \/ \E st \in Gaps : GapWait(st)
    \/ FireTotal
    \/ FireRelease
    \/ FireReport

ControlLoop ==
    \/ PollPedal \/ ArmTimeoutStep \/ RxParse \/ RxIdle \/ RxClear
    \/ UartLine \/ UartIdle \/ FireEntry \/ Sequencer

\* ------------------------------------------------------------------------
\* The environment: the tick, the pedal pin, the serial line
\* ------------------------------------------------------------------------
EnvFrame ==
    /\ Send(<<>>)
    /\ UNCHANGED <<variant, pc, ret, P, safetyVars, pedalVars, fireVars,
                   T_done>>

\* SysTick: the tick reaches t between two iterations of the control loop.
\* An iteration that does not fire takes far less than a tick, so the loop
\* has sampled the present pedal level before the tick moves on.
Tick(t) ==
    /\ pc = LoopStart(variant)
    /\ pedal_pin = pedal_last_raw
    /\ t > tick
    /\ t <= MaxTick
    /\ tick' = t
    /\ EnvFrame
    /\ UNCHANGED <<pedal_pin, pedal_changes, pedal_since, rxVars>>

\* The level on the pedal input changes.  Only pollPedal reads the input, so
\* a change at any other moment is a change before the next sample.
PedalChange ==
    /\ pc = "poll"
    /\ pedal_changes < MaxPedalChanges
    /\ pedal_changes' = pedal_changes + 1
    /\ pedal_pin' = IF pedal_pin = "SET" THEN "RESET" ELSE "SET"
    /\ pedal_since' = tick
    /\ EnvFrame
    /\ UNCHANGED <<tick, rxVars>>

\* (the receive interrupt storing the parameters of the line itself before
\* it hands the line to the control loop)
RxLine_InIsr(c) ==
    /\ variant = "HAL"
    /\ rx_line' = c
    /\ rx_line_ready' = TRUE
    /\ rx_in_weld' = welding_now
    /\ rx_handled' = FALSE
    /\ P' = parseCommand(c).P
    /\ Send(<<>>)
    /\ UNCHANGED <<variant, pc, ret, safetyVars, pedalVars, fireVars, T_done,
                   tick, pedal_pin, pedal_changes, pedal_since, serial1,
                   isrVars>>

\* HAL receive interrupt: the byte that ends a non-empty line arrives
RxLine(c) ==
    /\ variant = "HAL"
    /\ rx_line' = c
    /\ rx_line_ready' = TRUE
    /\ rx_in_weld' = welding_now
    /\ rx_handled' = FALSE
    /\ EnvFrame
    /\ UNCHANGED <<tick, pedal_pin, pedal_changes, pedal_since, serial1,
                   isrVars>>

\* ARDUINO serial driver: a complete line is buffered for pollUart
SerialLine(c) ==
    /\ variant = "ARDUINO"
    /\ Len(serial1) < MaxQueue
    /\ serial1' = Append(serial1, c)
    /\ EnvFrame
    /\ UNCHANGED <<tick, pedal_pin, pedal_changes, pedal_since, rx_line,
                   rx_line_ready, rx_in_weld, rx_handled, isrVars>>

\* The instants to which the tick advances between two loop iterations: the
\* end of the boot inhibit and of the cooldown with the tick before each,
\* and the end of a running debounce window.
TickTargets ==
    {Add32(boot_ms, BOOT_INHIBIT_MS - 1), Add32(boot_ms, BOOT_INHIBIT_MS)}
    \cup (IF T_done = <<>> THEN {}
          ELSE {Add32(last_weld_ms, WELD_COOLDOWN_MS - 1),
                Add32(last_weld_ms, WELD_COOLDOWN_MS)})
    \cup (IF pedal_last_raw = pedal_stable THEN {}
          ELSE {Add32(pedal_last_change_ms, PEDAL_DEBOUNCE_MS)})

Cmds == {Cmd("ARM", <<1>>), Cmd("ARM", <<0>>), Cmd("CMD,FIRE", <<>>)}

Next ==
    \/ ControlLoop
    \/ \E t \in TickTargets : Tick(t)
    \/ PedalChange
    \/ \E c \in Cmds : RxLine(c)
    \/ \E c \in Cmds : SerialLine(c)

Spec == Init /\ [][Next]_vars

\* ------------------------------------------------------------------------
\* The same program with the lines that set the recipe: every command with
\* arguments at, beyond and far beyond its limits.  Time passes to the end
\* of the boot inhibit and of a debounce window only.
\* ------------------------------------------------------------------------
ParamTicks ==
    {Add32(boot_ms, BOOT_INHIBIT_MS)}
    \cup (IF pedal_last_raw = pedal_stable THEN {}
          ELSE {Add32(pedal_last_change_ms, PEDAL_DEBOUNCE_MS)})

PulseArgs ==
    {<<1>>, <<2, 20, 5, 0, 0, 30>>, <<1, 65546>>,
     <<259, 300, 1000, 201, 65537, 70000>>}

PreheatArgs == {<<1, 20, 30>>, <<1, 300, 130, 300>>}

ParamCmds ==
    {Cmd("ARM", <<1>>), Cmd("CMD,FIRE", <<>>), Cmd("PING", <<>>),
     Cmd("CMD,SET,PULSE", <<201>>), Cmd("SET_POWER", <<306>>)}
    \cup {Cmd("SET_PULSE", a) : a \in PulseArgs}
    \cup {Cmd("SET_PREHEAT", a) : a \in PreheatArgs}

NextParams ==
    \/ ControlLoop
    \/ \E t \in ParamTicks : Tick(t)
    \/ PedalChange
    \/ \E c \in ParamCmds : RxLine(c)
    \/ \E c \in ParamCmds : SerialLine(c)

SpecParams == Init /\ [][NextParams]_vars

\* ------------------------------------------------------------------------
\* The same program with the pedal followed at every instant: its level
\* changes at any position of the control loop, inside a fire included, at
\* most once in a millisecond, and time passes to the end of a debounce
\* window and to the tick before it.
\* ------------------------------------------------------------------------
PedalEdge ==
    /\ pedal_changes < MaxPedalEdges
    /\ pedal_changes = 0 \/ pedal_since # tick
    /\ pedal_changes' = pedal_changes + 1
    /\ pedal_pin' = IF pedal_pin = "SET" THEN "RESET" ELSE "SET"
    /\ pedal_since' = tick
    /\ EnvFrame
    /\ UNCHANGED <<tick, rxVars>>

PedalTicks ==
    {Add32(boot_ms, BOOT_INHIBIT_MS)}
    \cup (IF pedal_last_raw = pedal_stable THEN {}
          ELSE {Add32(pedal_last_change_ms, PEDAL_DEBOUNCE_MS - 1),
                Add32(pedal_last_change_ms, PEDAL_DEBOUNCE_MS)})

PedalCmds == {Cmd("ARM", <<1>>), Cmd("CMD,FIRE", <<>>)}

NextPedal ==
    \/ ControlLoop
    \/ \E t \in PedalTicks : Tick(t)
    \/ PedalEdge
    \/ \E c \in PedalCmds : RxLine(c)
    \/ \E c \in PedalCmds : SerialLine(c)

SpecPedal == Init /\ [][NextPedal]_vars

\* ------------------------------------------------------------------------
\* The HAL variant with its receive interrupt followed byte by byte.  A
\* line is the text of its command followed by any number of blanks, which
\* atoi skips.  The interrupt runs between any two steps of the control
\* loop; a character takes longer to arrive than an idle iteration of the
\* loop, so with a line ready the next character comes when the loop is
\* already inside parseCommand (sending its answer) for that line.
\* ------------------------------------------------------------------------
RxChars == {"A", "LF", "CR"}
RxCmds == {Cmd("ARM", <<1>>), Cmd("ARM", <<0>>)}

\* the lines that n stored characters can spell: ARM,0 and ARM,1 take five
\* characters, a shorter line matches no command
RxText(n) == IF n >= 5 THEN RxCmds ELSE {Cmd("A", <<>>)}

\* (the interrupt storing every character, without the test of rx_idx)
RxByte_NoBound(ch) ==
    /\ variant = "HAL"
    /\ rx_line_ready => pc = "rxclr"
    /\ IF ch \in {"LF", "CR"}
       THEN /\ rx_sent' = 0
            /\ IF rx_idx > 0
               THEN /\ \E c \in RxText(rx_idx) : rx_line' = c
                    /\ rx_line_ready' = TRUE
                    /\ rx_idx' = 0
                    /\ rx_in_weld' = welding_now
                    /\ rx_handled' = FALSE
               ELSE UNCHANGED <<rx_line, rx_line_ready, rx_idx, rx_in_weld,
                                rx_handled>>
       ELSE /\ rx_sent < MaxLineLen
            /\ rx_sent' = rx_sent + 1
            /\ rx_idx' = U8(rx_idx + 1)
            /\ UNCHANGED <<rx_line, rx_line_ready, rx_in_weld, rx_handled>>
    /\ EnvFrame
    /\ UNCHANGED <<tick, pedal_pin, pedal_changes, pedal_since, serial1>>

\* HAL_UART_RxCpltCallback for the received character ch.  A terminator
\* after at least one stored character ends the line: rx_line[rx_idx] = 0,
\* the flag goes up and the index back to 0.  Any other character is stored
\* at rx_idx while rx_idx < RX_LINE_MAX - 1 and dropped otherwise.
RxByte(ch) ==
    /\ variant = "HAL"
    /\ rx_line_ready => pc = "rxclr"
    /\ IF ch \in {"LF", "CR"}
       THEN /\ rx_sent' = 0
            /\ IF rx_idx > 0
               THEN /\ \E c \in RxText(rx_idx) : rx_line' = c
                    /\ rx_line_ready' = TRUE
                    /\ rx_idx' = 0
                    /\ rx_in_weld' = welding_now
                    /\ rx_handled' = FALSE
               ELSE UNCHANGED <<rx_line, rx_line_ready, rx_idx, rx_in_weld,
                                rx_handled>>
       ELSE /\ rx_sent < MaxLineLen
            /\ rx_sent' = rx_sent + 1
            /\ rx_idx' = IF rx_idx < RX_LINE_MAX - 1
                         THEN U8(rx_idx + 1) ELSE rx_idx
            /\ UNCHANGED <<rx_line, rx_line_ready, rx_in_weld, rx_handled>>
    /\ EnvFrame
    /\ UNCHANGED <<tick, pedal_pin, pedal_changes, pedal_since, serial1>>

InitRx == Init /\ variant = "HAL"

NextRx ==
    \/ PollPedal
    \/ ArmTimeoutStep
    \/ RxParse
    \/ RxIdle
    \/ RxClear
    \/ \E ch \in RxChars : RxByte(ch)

SpecRx == InitRx /\ [][NextRx]_vars

\* ------------------------------------------------------------------------
\* The same program kept powered until the tick counter wraps: the 32-bit
\* counter passes 2^32 - 1 and comes to t.  The control loop is idle
\* meanwhile: the pedal rests at its committed level.
\* ------------------------------------------------------------------------
WrapTicks == {WELD_COOLDOWN_MS - 1, WELD_COOLDOWN_MS}

TickWrap(t) ==
    /\ pc = LoopStart(variant)
    /\ pedal_pin = pedal_last_raw
    /\ pedal_last_raw = pedal_stable
    /\ t < tick
    /\ tick' = t
    /\ EnvFrame
    /\ UNCHANGED <<pedal_pin, pedal_changes, pedal_since, rxVars>>

NextWrap ==
    \/ Next
    \/ \E t \in WrapTicks : TickWrap(t)

SpecWrap == Init /\ [][NextWrap]_vars

\* ------------------------------------------------------------------------
\* The same program with every line that writes the armed flag.
\* ------------------------------------------------------------------------
ArmCmds ==
    {Cmd("ARM", <<1>>), Cmd("ARM", <<0>>), Cmd("CMD,ENABLE", <<>>),
     Cmd("CMD,DISABLE", <<>>), Cmd("CMD,FIRE", <<>>)}

NextArm ==
    \/ ControlLoop
    \/ \E t \in TickTargets : Tick(t)
    \/ PedalChange
    \/ \E c \in ArmCmds : RxLine(c)
    \/ \E c \in ArmCmds : SerialLine(c)

SpecArm == Init /\ [][NextArm]_vars

\* The control loop never stops: it is the only thread of the processor.
SpecLive == Init /\ [][Next]_vars /\ WF_vars(ControlLoop)

\* ------------------------------------------------------------------------
\* Properties
\* ------------------------------------------------------------------------
\* the step in which fireRecipe answers a fire request
GateStep == pc = "gate" /\ pc' # "gate"

\* now - boot_time < 5000 and now - last_weld_end < 500, on the ticks of the
\* model (far below the wrap of the counter)
InBootInhibit == tick - boot_ms < BOOT_INHIBIT_MS
InCooldown == tick - last_weld_ms < WELD_COOLDOWN_MS

\* the control loop is outside the pulse sequence
Idle == pc \in {"poll", "arm", "rx", "rxclr", "uart", "gate"}

\* the step in which the parser handles the received line c
Parsed(c) ==
    \/ /\ variant = "HAL"
       /\ pc = "rx" /\ rx_line_ready /\ pc' # "rx"
       /\ c = rx_line
    \/ /\ variant = "ARDUINO"
       /\ pc = "uart" /\ serial1 # <<>> /\ serial1' = Tail(serial1)
       /\ c = Head(serial1)

\* C1: fireRecipe answers a fire request with exactly one line, the first
\* that applies in the order boot inhibit, not armed (after the arm timeout
\* has been applied), already welding, cooldown: BOOT_INHIBIT inside the
\* boot window whatever else holds, NOT_ARMED for a disarmed unit even in
\* cooldown, and EVENT,WELD_START if and only if no condition applies.
C1_GateOrder ==
    [][GateStep =>
        /\ Len(tx') = 1
        /\ InBootInhibit => tx'[1].tag = "DENY,BOOT_INHIBIT"
        /\ (~InBootInhibit /\ ~armed') => tx'[1].tag = "DENY,NOT_ARMED"
        /\ (~InBootInhibit /\ armed' /\ welding_now)
              => tx'[1].tag = "DENY,ALREADY_WELDING"
        /\ (~InBootInhibit /\ armed' /\ ~welding_now /\ InCooldown)
              => tx'[1].tag = "DENY,COOLDOWN"
        /\ (tx'[1].tag = "EVENT,WELD_START")
              <=> (~InBootInhibit /\ armed' /\ ~welding_now /\ ~InCooldown)
      ]_vars

\* a disarmed unit in cooldown after a completed fire has just been denied
\* NOT_ARMED
C1_Witness ==
    /\ tx = <<L("DENY,NOT_ARMED")>>
    /\ T_done # <<>>
    /\ InCooldown
    /\ ~InBootInhibit

\* C2: while now - boot_time < 5000 the output duty is 0, no cycle runs and
\* no EVENT,WELD_START is sent; every fire request in that window, armed or
\* not, is answered DENY,BOOT_INHIBIT with ms = 5000 - (now - boot_time).
C2_Quiet ==
    duty = 0 /\ ~welding_now /\ ~wire_open /\ ~Has(tx, "EVENT,WELD_START")

C2_BootInhibit ==
    [][/\ InBootInhibit => C2_Quiet
       /\ InBootInhibit' => C2_Quiet'
       /\ (GateStep /\ InBootInhibit) =>
             tx' = <<Line("DENY,BOOT_INHIBIT",
                          BOOT_INHIBIT_MS - (tick - boot_ms), <<>>)>>
      ]_vars

\* an armed unit has just been denied in the last millisecond of the window
C2_Witness == tx = <<Line("DENY,BOOT_INHIBIT", 1, <<>>)>> /\ armed

C4_OutputOnlyWhileWelding ==
    /\ duty # 0 => welding_now
    /\ Idle => duty = 0

\* the interrupt has delivered a line while the second pulse drives
C4_Witness ==
    /\ pc = "d2_on"
    /\ duty # 0
    /\ rx_line_ready
    /\ rx_in_weld

\* C5: a CMD,FIRE line that arrived while welding_now was true is answered
\* DENY,ALREADY_WELDING while the cycle runs; it is not kept and handled
\* after the cycle.
C5_RejectedNotQueued ==
    [][(GateStep /\ ret = "rxclr" /\ rx_in_weld) =>
          /\ welding_now
          /\ tx' = <<L("DENY,ALREADY_WELDING")>>
      ]_vars

\* C6: once EVENT,WELD_START is sent, EVENT,WELD_DONE follows, sent with the
\* output off and welding_now false; no other line is sent between the two,
\* and the two alternate.
C6_Between ==
    [][/\ wire_open =>
             \/ tx' = <<>>
             \/ /\ Len(tx') = 1
                /\ tx'[1].tag = "EVENT,WELD_DONE"
                /\ duty' = 0
                /\ ~welding_now'
       /\ Has(tx', "EVENT,WELD_START") => ~wire_open
       /\ Has(tx', "EVENT,WELD_DONE") => wire_open
      ]_vars

C6_RunsToCompletion ==
    /\ C6_Between
    /\ wire_open ~> (Has(tx, "EVENT,WELD_DONE") /\ duty = 0 /\ ~welding_now)

\* a cycle has just completed: its EVENT,WELD_DONE is the line last sent
C6_Witness ==
    /\ tx # <<>>
    /\ tx[1].tag = "EVENT,WELD_DONE"
    /\ ~wire_open
    /\ duty = 0
    /\ ~welding_now

C8_SetPowerClamp ==
    [][\A c \in ParamCmds :
          (Parsed(c) /\ c.op = "SET_POWER") =>
             LET pct == c.args[1]
                 want == IF pct < 50 THEN 50 ELSE IF pct > 100 THEN 100 ELSE pct
             IN /\ P'.weld_power_pct = want
                /\ tx' = <<Line("ACK,SET_POWER,pct=", want, <<>>)>>
      ]_vars

\* C9: a stage duration above 200 given in SET_PULSE, above 65535 included,
\* is stored as exactly 200.
C9_StageDurationClamp ==
    [][\A c \in ParamCmds :
          (Parsed(c) /\ c.op = "SET_PULSE" /\ Len(c.args) >= 2) =>
             /\ Arg(c.args, 2, 0) > 200 => P'.weld_d1_ms = 200
             /\ Arg(c.args, 4, 0) > 200 => P'.weld_d2_ms = 200
             /\ Arg(c.args, 6, 0) > 200 => P'.weld_d3_ms = 200
      ]_vars

\* C10: the durations and gaps EVENT,WELD_DONE reports for the stages that
\* ran are the times the fire drove the output and held it off.
C10_ReportIsWhatWasFired ==
    [][(pc = "fin_report" /\ pc' # "fin_report") =>
          LET r == tx'[1].r IN
          /\ r[2] = drive.d1
          /\ r[1] >= 2 => (r[3] = drive.gap1 /\ r[4] = drive.d2)
          /\ r[1] >= 3 => (r[5] = drive.gap2 /\ r[6] = drive.d3)
          /\ (r[8] = 1 /\ r[9] > 0) =>
                (r[9] = drive.preheat /\ r[11] = drive.preheat_gap)
      ]_vars

\* the step in which pollPedal takes a sample, and the one that is a press
\* edge (pollPedal calls fireRecipe)
PedalSample == pc = "poll" /\ pc' # "poll"
PressEdge == pc = "poll" /\ pc' = "gate"

\* C11: a press edge is produced only by an active level that has held for
\* 40 ms, however the control loop was blocked in between: a level change
\* that reverts before 40 ms produces none, and a release produces none.
C11_DebouncedPress ==
    [][PressEdge =>
          /\ pedal_pin = "RESET"
          /\ tick - pedal_since >= PEDAL_DEBOUNCE_MS
      ]_vars

\* C12: pedal_stable changes only in a sample that reads the level of the
\* sample before it with now - pedal_last_change_ms >= 40; a sample that
\* reads another level than the one before restarts the window and leaves
\* pedal_stable alone; a press edge takes pedal_stable from inactive to
\* active, so between two of them it was committed back to inactive.
C12_StableAfterWindow ==
    [][/\ pedal_stable' # pedal_stable =>
             /\ PedalSample
             /\ pedal_pin = pedal_last_raw
             /\ tick - pedal_last_change_ms >= PEDAL_DEBOUNCE_MS
             /\ pedal_stable' = pedal_pin
       /\ (PedalSample /\ pedal_pin # pedal_last_raw) =>
             /\ pedal_last_change_ms' = tick
             /\ pedal_last_raw' = pedal_pin
             /\ pedal_stable' = pedal_stable
       /\ PressEdge => (pedal_stable = "SET" /\ pedal_stable' = "RESET")
      ]_vars

\* a press edge: the sample that commits the active level after its window
C12_Witness ==
    /\ pc = "gate"
    /\ ret = "arm"
    /\ pedal_stable = "RESET"
    /\ pedal_changes = 3
    /\ tick - pedal_last_change_ms >= PEDAL_DEBOUNCE_MS

\* C13: HAL: from the interrupt raising rx_line_ready until the control loop
\* clears it, the interrupt does not write rx_line.
C13_NoWriteWhileReady ==
    [][(rx_line_ready /\ rx_line_ready') => rx_line' = rx_line]_vars

\* C14: in both variants the parser answers every line handed to it with
\* exactly one line (a line that calls fireRecipe is answered by fireRecipe
\* instead), and a line that matches no command with ERR,UNKNOWN_CMD.
C14_OneResponse ==
    [][\A c \in ParamCmds :
          Parsed(c) =>
             /\ pc' # "gate" => Len(tx') = 1
             /\ c.op = "PING" => tx' = <<L("ERR,UNKNOWN_CMD")>>
      ]_vars

\* C15: in both variants SET_PREHEAT is answered DENY,BAD_SET_PREHEAT
\* exactly when it carries fewer than 3 numeric fields (en,ms,pct without
\* gap_ms is accepted), and a denied SET_PREHEAT changes no state variable.
C15_PreheatDenied ==
    [][\A c \in ParamCmds :
          (Parsed(c) /\ c.op = "SET_PREHEAT") =>
             /\ tx' = <<L("DENY,BAD_SET_PREHEAT")>> <=> Len(c.args) < 3
             /\ tx' = <<L("DENY,BAD_SET_PREHEAT")>> =>
                   /\ P' = P
                   /\ UNCHANGED <<safetyVars, pedalVars, fireVars>>
      ]_vars

\* C16: SET_PULSE is answered DENY,BAD_SET_PULSE exactly when fewer than 2
\* numeric fields parse, and then no recipe field changes; when it is
\* accepted every omitted trailing field (gap1, d2, gap2, d3) is stored as 0
\* and the acknowledged mode is the stored, clamped mode.
C16_SetPulse ==
    [][\A c \in ParamCmds :
          (Parsed(c) /\ c.op = "SET_PULSE") =>
             LET n == Len(c.args) IN
             /\ tx' = <<L("DENY,BAD_SET_PULSE")>> <=> n < 2
             /\ n < 2 => P' = P
             /\ n >= 2 =>
                   /\ n < 3 => P'.weld_gap1_ms = 0
                   /\ n < 4 => P'.weld_d2_ms = 0
                   /\ n < 5 => P'.weld_gap2_ms = 0
                   /\ n < 6 => P'.weld_d3_ms = 0
                   /\ P'.weld_mode \in 1..3
                   /\ tx' = <<Line("ACK,SET_PULSE,mode=", P'.weld_mode, <<>>)>>
      ]_vars

\* SET_PULSE,1,65546 accepted: two fields, gap1 and d2 are stored as 0
C16_Witness ==
    /\ tx = <<Line("ACK,SET_PULSE,mode=", 1, <<>>)>>
    /\ P.weld_d1_ms = 10
    /\ P.weld_gap1_ms = 0
    /\ P.weld_d2_ms = 0

\* the pulses and dwells of a fire with recipe p, in the order of the
\* sequence: those whose stage runs and whose time is not 0
FireOrder(p) ==
    LET pre == p.preheat_enabled /\ p.preheat_ms > 0
        Runs(st) ==
            CASE st = "preheat" -> pre
              [] st = "preheat_gap" -> pre /\ p.preheat_gap_ms > 0
              [] st = "d1" -> p.weld_d1_ms > 0
              [] st = "gap1" -> p.weld_mode >= 2 /\ p.weld_gap1_ms > 0
              [] st = "d2" -> p.weld_mode >= 2 /\ p.weld_d2_ms > 0
              [] st = "gap2" -> p.weld_mode >= 3 /\ p.weld_gap2_ms > 0
              [] st = "d3" -> p.weld_mode >= 3 /\ p.weld_d3_ms > 0
    IN SelectSeq(<<"preheat", "preheat_gap", "d1", "gap1", "d2", "gap2",
                   "d3">>, Runs)

\* C17: a fire keeps the output off for the deadtime, then drives in this
\* order: the preheat pulse iff preheat_enabled and preheat_ms > 0, then an
\* off dwell if preheat_gap_ms > 0; stage 1; gap1 and stage 2 iff mode >= 2;
\* gap2 and stage 3 iff mode >= 3.  A stage of duration 0 does not turn the
\* output on, the output is off after every stage, and the default recipe
\* drives exactly one stage, 10 ms at full duty, with no preheat.
C17_FireOrder ==
    [][/\ (pc = "fin" /\ pc' = "fin_flag") =>
             /\ [i \in 1..Len(events) |-> events[i].st] = FireOrder(P)
             /\ \A i \in 1..Len(events) :
                   /\ events[i].ms > 0
                   /\ events[i].st \in Gaps => events[i].duty = 0
             /\ P = DefaultParams =>
                   events = <<[st |-> "d1", duty |-> PWM_MAX, ms |-> 10]>>
       /\ pc \in {"off0", "deadtime"} => duty' = 0
       /\ (pc \in {"preheat_on", "d1_on", "d2_on", "d3_on"}
           /\ pc' # pc) => duty' = 0
       /\ duty' # 0 => pc' \in {"preheat_on", "d1_on", "d2_on", "d3_on"}
      ]_vars

\* the end of a fire of all seven pulses and dwells
C17_Witness ==
    /\ pc = "fin_flag"
    /\ Len(events) = 7
    /\ P.weld_mode = 3

\* C18: from EVENT,WELD_START to EVENT,WELD_DONE (welding_now is true only
\* in between) the control loop handles no command and takes no pedal
\* sample, and nothing writes the parameters, whatever the receive interrupt
\* delivers meanwhile: every stage reads, and EVENT,WELD_DONE reports, the
\* values stored when the fire was authorized.
C18_RecipeFrozen ==
    [][/\ welding_now => wire_open
       /\ wire_open =>
             /\ pc \notin {"poll", "arm", "rx", "rxclr", "uart"}
             /\ \A c \in ParamCmds : ~Parsed(c)
             /\ ~PedalSample
             /\ P' = P
             /\ UNCHANGED <<armed, armed_until_ms, pedalVars>>
       /\ (pc = "fin_report" /\ pc' # "fin_report") =>
             tx'[1].r = DoneReport(P)
      ]_vars

\* a SET_PULSE line has arrived while the first stage drives the output
C18_Witness ==
    /\ pc = "d1_on"
    /\ welding_now
    /\ rx_line_ready
    /\ rx_in_weld
    /\ rx_line.op = "SET_PULSE"
    /\ Len(rx_line.args) = 6

\* pctToDuty over every value of its uint8_t argument: PWM_MAX from 100 on,
\* below that the greatest d with d * 100 <= pct * PWM_MAX; non-decreasing
\* and never above PWM_MAX
PctToDutyExact ==
    /\ \A pct \in 0..W8 - 1 :
          LET d == pctToDuty(pct) IN
          /\ pct >= 100 => d = 1023
          /\ pct < 100 => (d * 100 <= pct * 1023 /\ pct * 1023 < (d + 1) * 100)
          /\ d >= 0 /\ d <= PWM_MAX
    /\ \A pct \in 0..W8 - 2 : pctToDuty(pct) <= pctToDuty(pct + 1)

\* C19: pctToDuty(pct) is 1023 for pct >= 100 and floor(pct * 1023 / 100)
\* otherwise, for all pct in 0..255; it is non-decreasing and never above
\* PWM_MAX; the duty driven in a main stage is in 511..1023 and in the
\* preheat stage in 0..1023.
C19_Duty ==
    /\ PctToDutyExact
    /\ pc \in {"d1_on", "d2_on", "d3_on"} =>
          /\ duty = pctToDuty(P.weld_power_pct)
          /\ duty >= 511 /\ duty <= 1023
    /\ pc = "preheat_on" =>
          /\ duty = pctToDuty(P.preheat_pct)
          /\ duty >= 0 /\ duty <= 1023

\* a main stage drives the output at the lowest power, 50 percent
C19_Witness ==
    /\ pc = "d2_on"
    /\ P.weld_power_pct = 50
    /\ duty = 511

\* C20: in both variants every debounced press edge emits EVENT,PEDAL_PRESS,
\* before any line of the fire request it makes.
C20_PressAnnounced ==
    [][PressEdge => tx' = <<L("EVENT,PEDAL_PRESS")>>]_vars

\* C21: in both variants a CMD,FIRE line enters fireRecipe as a debounced
\* pedal press does: the line handed to the parser is a fire request, which
\* the gate answers next.
C21_SameEntry ==
    [][/\ PressEdge => pc' = "gate"
       /\ \A c \in Cmds : (Parsed(c) /\ c.op = "CMD,FIRE") => pc' = "gate"
      ]_vars

\* C22: HAL: rx_idx never exceeds RX_LINE_MAX - 1, so the interrupt writes
\* its characters and the terminating NUL inside rx_line; the characters of
\* a line beyond the 127th are dropped, and the terminator then delivers
\* the truncated line as one line.
C22_IndexInBuffer ==
    [][/\ rx_idx' >= 0 /\ rx_idx' <= RX_LINE_MAX - 1
       /\ rx_idx' = (IF rx_sent' < RX_LINE_MAX - 1 THEN rx_sent'
                     ELSE RX_LINE_MAX - 1)
       /\ rx_idx' = rx_idx + 1 => rx_idx < RX_LINE_MAX - 1
       /\ (rx_sent > 0 /\ rx_sent' = 0) =>
             /\ rx_line_ready' /\ ~rx_handled'
             /\ rx_idx' = 0
      ]_vars

\* the peer has sent more characters than the buffer takes
C22_Witness ==
    /\ rx_sent > RX_LINE_MAX
    /\ rx_idx = RX_LINE_MAX - 1

\* C23: DENY,COOLDOWN is reported only after at least one completed fire:
\* the first request that passes the boot-inhibit and armed checks after
\* power-on is not denied COOLDOWN.
C23_NoCooldownBeforeFirstFire ==
    [][(GateStep /\ Has(tx', "DENY,COOLDOWN")) => T_done # <<>>]_vars

\* the step in which fireRecipe denies a fire request
Denied == GateStep /\ ~Has(tx', "EVENT,WELD_START")

\* C24: a denied fire request drives no output and leaves welding_now,
\* last_weld_ms, the recipe, the pedal state and (unless the arm timeout
\* expires) the armed flag unchanged; it is consumed: fireRecipe returns,
\* and a fire starts only in answer to a request, a press edge or a
\* CMD,FIRE line; a request made when no condition blocks is authorized.
C24_DeniedChangesNothing ==
    [][/\ Denied =>
             /\ duty = 0 /\ duty' = 0
             /\ UNCHANGED <<welding_now, last_weld_ms, P, pedalVars, fireVars>>
             /\ armed' # armed => Has(tx', "EVENT,ARM_TIMEOUT")
             /\ pc' = ret
       /\ Has(tx', "EVENT,WELD_START") => GateStep
       /\ (pc # "gate" /\ pc' = "gate") =>
             \/ PressEdge
             \/ \E c \in Cmds : Parsed(c) /\ c.op = "CMD,FIRE"
       /\ (GateStep /\ armed /\ ~welding_now /\ ~InBootInhibit
           /\ ~InCooldown) => tx' = <<L("EVENT,WELD_START")>>
      ]_vars

\* an armed unit has just been denied in the last millisecond of the
\* cooldown and is back in the control loop
C24_Witness ==
    /\ tx = <<Line("DENY,COOLDOWN", 1, <<>>)>>
    /\ T_done # <<>>
    /\ armed
    /\ pc \in {"arm", "rxclr"}
    /\ duty = 0

\* C25: HAL: no received line is lost or handled twice: a line the interrupt
\* has marked ready stays in rx_line, ready, until it is handed to
\* parseCommand, also when it completes while the control loop is inside
\* parseCommand for the line before it; and it is handed over once.
C25_EveryLineHandledOnce ==
    [][/\ (rx_line_ready /\ ~rx_handled) =>
             /\ rx_line_ready'
             /\ rx_line' = rx_line
       /\ (pc = "rx" /\ rx_line_ready /\ pc' # "rx") => ~rx_handled
      ]_vars

\* C26: with ARM_TIMEOUT_MS = 0 armed_until_ms is always 0 and
\* EVENT,ARM_TIMEOUT is never sent; the armed flag changes only when an ARM,
\* CMD,ENABLE or CMD,DISABLE line is handled, not by fires, denials, the
\* pedal, other commands or time; a fire starts only on an armed unit, so in
\* the HAL variant none starts before the first ARM,1 or CMD,ENABLE.
C26_ArmedOnlyByCommand ==
    [][/\ armed_until_ms' = 0
       /\ ~Has(tx', "EVENT,ARM_TIMEOUT")
       /\ armed' # armed =>
             \E c \in ArmCmds :
                /\ Parsed(c)
                /\ c.op \in {"ARM", "CMD,ENABLE", "CMD,DISABLE"}
       /\ Has(tx', "EVENT,WELD_START") => (armed /\ armed')
      ]_vars

\* HAL: armed by CMD,ENABLE, a fire has completed and the unit is still armed
C26_Witness ==
    /\ variant = "HAL"
    /\ T_done # <<>>
    /\ armed
    /\ tx = <<L("ACK,ENABLED")>>

====
